---- MODULE Spec2Model ----
(***************************************************************************)
(* Model of mfa_ua.sensitivity_analysis.get_sensitivities:                 *)
(*   get_sensitivities_numerical  (finite-difference engine)               *)
(*   get_sensitivities            (symbolic engine)                        *)
(* One call is one behaviour: Init draws the caller's arguments, the       *)
(* actions are the statements of the call in program order.               *)
(* Numbers are exact rationals <<n, d>> with d > 0 in lowest terms.        *)
(***************************************************************************)
EXTENDS Integers, Sequences, FiniteSets, TLC

\* ------------------------------------------------------------------ bounds
\* operating-point values are drawn from 0 .. MaxVal
MaxVal == 2

\* ------------------------------------------------------- program constants
\* np.round(second_derivative, 5)
LinearityDecimals == 5
\* np.round(relative_sensitivity, 2)
RelativeDecimals == 2
\* np.round(absolute_sensitivity)
AbsoluteDecimals == 0

\* ------------------------------------------------------ exact arithmetic
Abs(i) == IF i < 0 THEN -i ELSE i

RECURSIVE Gcd(_, _)
Gcd(a, b) == IF b = 0 THEN a ELSE Gcd(b, a % b)

\* the rational n/d (d # 0) in lowest terms with a positive denominator
Rat(n, d) ==
    LET g == Gcd(Abs(n), Abs(d))
        s == IF d < 0 THEN -1 ELSE 1
    IN  << (s * n) \div g, (s * d) \div g >>

Zero == << 0, 1 >>
One  == << 1, 1 >>

RAdd(a, b) == Rat(a[1] * b[2] + b[1] * a[2], a[2] * b[2])
RSub(a, b) == Rat(a[1] * b[2] - b[1] * a[2], a[2] * b[2])
RMul(a, b) == Rat(a[1] * b[1], a[2] * b[2])
\* only used with b # Zero: the callers model the ZeroDivisionError themselves
RDiv(a, b) == Rat(a[1] * b[2], a[2] * b[1])

RECURSIVE Pow10(_)
Pow10(k) == IF k = 0 THEN 1 ELSE 10 * Pow10(k - 1)

\* np.round(x, decimals): round half to even at the given decimal place
np_round(x, decimals) ==
    LET S    == Pow10(decimals)
        ip   == x[1] \div x[2]
        rem  == x[1] - ip * x[2]
        q    == (rem * S) \div x[2]
        r    == rem * S - q * x[2]
        low  == ip * S + q
        up   == IF 2 * r > x[2] THEN low + 1
                ELSE IF 2 * r < x[2] THEN low
                ELSE IF low % 2 = 0 THEN low ELSE low + 1
    IN  Rat(up, S)

\* ----------------------------------------------------- the caller's inputs
Names == {"x", "y"}

Vals == { Rat(i, 1) : i \in 0 .. MaxVal }

\* parameter_values: an insertion-ordered dict, as a sequence of items
Items == [name : Names, value : Vals]

ParameterSets ==
    { << a >> : a \in Items } \cup
    { pv \in { << a, b >> : a \in Items, b \in Items } : pv[1].name # pv[2].name }

keys(pv) == [i \in 1 .. Len(pv) |-> pv[i].name]
values(pv) == [i \in 1 .. Len(pv) |-> pv[i].value]

\* the default of the interval_width argument, 0.05
DefaultIntervalWidth == Rat(1, 20)

Widths == { Rat(1, 2), One }

WidthKeys == Names \cup {"default"}

\* interval_width: a float, or a dict from parameter name / "default" to float
IntervalWidths ==
    { [isdict |-> FALSE, scalar |-> w, map |-> << >>] :
        w \in Widths \cup {DefaultIntervalWidth} } \cup
    { [isdict |-> TRUE, scalar |-> Zero, map |-> m] :
        m \in UNION { [ks -> Widths] : ks \in SUBSET WidthKeys } }

\* explicit intervals: an empty list, [low, high] pairs, and lists with
\* fewer or more than two values
ExplicitIntervals ==
    { << >>,
      << Rat(0, 1), Rat(2, 1) >>,
      << Rat(1, 1), Rat(3, 1) >>,
      << Rat(2, 1) >>,
      << Rat(0, 1), Rat(1, 1), Rat(2, 1) >> }

\* differentiation_interval_values: None, or a dict from name to list
DifferentiationIntervalValues ==
    { [isnone |-> TRUE, map |-> << >>] } \cup
    { [isnone |-> FALSE, map |-> m] :
        m \in UNION { [ks -> ExplicitIntervals] : ks \in SUBSET Names } }

\* the target functions the caller may pass
Functions == {"weighted", "product", "squares", "constant", "reciprocal"}

RECURSIVE WeightedSum(_, _)
WeightedSum(args, i) ==
    IF i = 0 THEN Zero
    ELSE RAdd(WeightedSum(args, i - 1), RMul(Rat(i, 1), args[i]))

RECURSIVE Product(_, _)
Product(args, i) ==
    IF i = 0 THEN One ELSE RMul(Product(args, i - 1), args[i])

RECURSIVE WeightedSquares(_, _)
WeightedSquares(args, i) ==
    IF i = 0 THEN Zero
    ELSE RAdd(WeightedSquares(args, i - 1),
              RMul(Rat(i, 1), RMul(args[i], args[i])))

RECURSIVE Reciprocals(_, _)
Reciprocals(args, i) ==
    IF i = 0 THEN Zero
    ELSE RAdd(Reciprocals(args, i - 1), RDiv(One, args[i]))

\* function(*args): the value returned, or raised = TRUE when the call raises
\*   weighted   : 1*a1 + 2*a2 + ...      (linear in every parameter)
\*   product    : a1 * a2 * ...          (linear in every parameter)
\*   squares    : 1*a1^2 + 2*a2^2 + ...  (not linear)
\*   constant   : 3
\*   reciprocal : 1/a1 + 1/a2 + ...      (raises ZeroDivisionError at ai = 0)
Apply(fn, args) ==
    CASE fn = "weighted"   -> [raised |-> FALSE, value |-> WeightedSum(args, Len(args))]
      [] fn = "product"    -> [raised |-> FALSE, value |-> Product(args, Len(args))]
      [] fn = "squares"    -> [raised |-> FALSE, value |-> WeightedSquares(args, Len(args))]
      [] fn = "constant"   -> [raised |-> FALSE, value |-> Rat(3, 1)]
      [] OTHER             -> IF \E i \in 1 .. Len(args) : args[i] = Zero
                              THEN [raised |-> TRUE, value |-> Zero]
                              ELSE [raised |-> FALSE, value |-> Reciprocals(args, Len(args))]

\* the functions that are purely linear in each of their parameters
LinearFunctions == {"weighted", "product", "constant"}

\* ------------------------------------------------------------------ state
VARIABLES
    engine,                          \* which entry point was called
    function,                        \* argument: the target function
    parameter_values,                \* argument: the caller's dict
    interval_width,                  \* argument
    differentiation_interval_values, \* argument
    given_parameter_values,          \* the dict as it was when the call began
    pc,                              \* position in the call
    index,                           \* position of the for loop over the items
    k,                               \* position of the loop over the interval
    normal_operating_point,
    parameter,
    normal_value,
    differentiation_interval,
    rel_width,
    results,
    function_inputs,
    absolute_sensitivity,
    relative_sensitivity,
    second_derivative,
    sensitivities,                   \* insertion-ordered dict, as a sequence
    printed,                         \* what print() has written
    calls,                           \* the calls made to the target function
    raised,                          \* the exception that left the call
    returned                         \* the value the call returned

inputs == << engine, function, interval_width, differentiation_interval_values,
             given_parameter_values >>

locals == << normal_operating_point, parameter, normal_value,
             differentiation_interval, rel_width, results, function_inputs,
             absolute_sensitivity, relative_sensitivity, second_derivative >>

vars == << engine, function, parameter_values, interval_width,
           differentiation_interval_values, given_parameter_values, pc, index,
           k, normal_operating_point, parameter, normal_value,
           differentiation_interval, rel_width, results, function_inputs,
           absolute_sensitivity, relative_sensitivity, second_derivative,
           sensitivities, printed, calls, raised, returned >>

NoError == [type |-> "none", kind |-> "none", parameter |-> "", value |-> Zero]

NotReturned == [isnone |-> TRUE, map |-> << >>]

Init ==
    /\ engine \in {"numerical", "symbolic"}
    /\ function \in Functions
    /\ parameter_values \in ParameterSets
    /\ given_parameter_values = parameter_values
    /\ interval_width \in
         IF engine = "numerical" THEN IntervalWidths
         ELSE { [isdict |-> FALSE, scalar |-> DefaultIntervalWidth, map |-> << >>] }
    /\ differentiation_interval_values \in
         IF engine = "numerical" THEN DifferentiationIntervalValues
         ELSE { [isnone |-> TRUE, map |-> << >>] }
    /\ pc = "start"
    /\ index = 1
    /\ k = 1
    /\ normal_operating_point = Zero
    /\ parameter = ""
    /\ normal_value = Zero
    /\ differentiation_interval = << >>
    /\ rel_width = Zero
    /\ results = << >>
    /\ function_inputs = << >>
    /\ absolute_sensitivity = Zero
    /\ relative_sensitivity = Zero
    /\ second_derivative = Zero
    /\ sensitivities = << >>
    /\ printed = << >>
    /\ calls = << >>
    /\ raised = NoError
    /\ returned = NotReturned

\* ------------------------------------------------- helpers of the engine
\* variant: the new entry is put in front of the others
dict_set_front(d, key, entry) ==
    << entry >> \o SelectSeq(d, LAMBDA e : e.name # key)

\* sensitivities[key] = entry on an insertion-ordered dict
dict_set(d, key, entry) ==
    IF \E i \in 1 .. Len(d) : d[i].name = key
    THEN [i \in 1 .. Len(d) |-> IF d[i].name = key THEN entry ELSE d[i]]
    ELSE Append(d, entry)

\* variant: the explicit interval of the caller is not looked up
explicit_interval_dropped(div, p) == << >>

\* try: differentiation_interval_values[parameter]
\* except (KeyError, TypeError): None          (None and [] are both falsy)
explicit_interval(div, p) ==
    IF div.isnone THEN << >>
    ELSE IF p \in DOMAIN div.map THEN div.map[p]
    ELSE << >>

\* variant: a mapping without a usable entry falls back to the default width
resolve_width_fallback(iw, p) ==
    IF iw.isdict
    THEN IF p \in DOMAIN iw.map THEN [ok |-> TRUE, width |-> iw.map[p]]
         ELSE IF "default" \in DOMAIN iw.map
              THEN [ok |-> TRUE, width |-> iw.map["default"]]
              ELSE [ok |-> TRUE, width |-> DefaultIntervalWidth]
    ELSE [ok |-> TRUE, width |-> iw.scalar]

\* variant: the "default" entry is looked up before the entry of the parameter
resolve_width_default_first(iw, p) ==
    IF iw.isdict
    THEN IF "default" \in DOMAIN iw.map
         THEN [ok |-> TRUE, width |-> iw.map["default"]]
         ELSE IF p \in DOMAIN iw.map
              THEN [ok |-> TRUE, width |-> iw.map[p]]
              ELSE [ok |-> FALSE, width |-> Zero]
    ELSE [ok |-> TRUE, width |-> iw.scalar]

\* the width for parameter p, or ok = FALSE where the code raises ValueError
resolve_width(iw, p) ==
    IF iw.isdict
    THEN IF p \in DOMAIN iw.map THEN [ok |-> TRUE, width |-> iw.map[p]]
         ELSE IF "default" \in DOMAIN iw.map
              THEN [ok |-> TRUE, width |-> iw.map["default"]]
              ELSE [ok |-> FALSE, width |-> Zero]
    ELSE [ok |-> TRUE, width |-> iw.scalar]

\* variant: a three-point interval that includes the operating value
derived_interval_three_point(v, w) ==
    << RMul(v, RSub(One, w)), v, RMul(v, RAdd(One, w)) >>

\* [normal_value * (1 - rel_width), normal_value * (1 + rel_width)]
derived_interval(v, w) == << RMul(v, RSub(One, w)), RMul(v, RAdd(One, w)) >>

\* raise ValueError("Missing differentiation interval for parameter ...")
missing_interval_error(p) ==
    [type |-> "ValueError", kind |-> "configuration", parameter |-> p, value |-> Zero]

\* function_inputs = parameter_values.copy(); function_inputs[parameter] = value
perturbed_inputs(pv, i, value) == [pv EXCEPT ![i].value = value]

\* variant: function_inputs is the caller's dict itself, not a copy
caller_dict_aliased(pv, fi) == fi

\* the caller's dict after the write into function_inputs: parameter_values
\* was copied, so the write does not reach it
caller_dict_after_write(pv, fi) == pv

\* except Error as e: raise ValueError(...)
\* the name Error is bound nowhere in the module, so matching the exception
\* against the except clause raises NameError and the ValueError is never built
evaluation_failure(p, value) ==
    [type |-> "NameError", kind |-> "unbound name Error", parameter |-> "", value |-> Zero]

\* an exception of the target function that no handler encloses
target_failure == [type |-> "TargetError", kind |-> "unwrapped", parameter |-> "", value |-> Zero]

zero_division == [type |-> "ZeroDivisionError", kind |-> "unwrapped", parameter |-> "", value |-> Zero]

index_error == [type |-> "IndexError", kind |-> "unwrapped", parameter |-> "", value |-> Zero]

\* variant: the exception is recorded and the call returns what it has
raise_exception_swallowed(exception) == [pc |-> "return", raised |-> exception]

\* raise: the exception leaves the call, nothing after it runs
raise_exception(exception) == [pc |-> "raised", raised |-> exception]

\* variant: a zero denominator gives the ratio 0
linearity_ratio_zero(nop, res) ==
    IF RSub(res[2], nop) = Zero THEN Zero
    ELSE RDiv(RSub(nop, res[1]), RSub(res[2], nop))

\* try: (nop - results[0]) / (results[1] - nop)  except ZeroDivisionError: 1
linearity_ratio(nop, res) ==
    IF RSub(res[2], nop) = Zero THEN One
    ELSE RDiv(RSub(nop, res[1]), RSub(res[2], nop))

\* np.round(second_derivative, 5) == 1
is_linear(ratio) == np_round(ratio, LinearityDecimals) = One

\* --------------------------------------- get_sensitivities_numerical, steps
\* normal_operating_point = function(*parameter_values.values()); sensitivities = {}
EvaluateOperatingPoint ==
    /\ engine = "numerical"
    /\ pc = "start"
    /\ LET r == Apply(function, values(parameter_values))
       IN  /\ calls' = Append(calls, [kind |-> "operating_point",
                                      args |-> values(parameter_values),
                                      parameter |-> "", value |-> Zero])
           /\ IF r.raised
              THEN /\ pc' = raise_exception(target_failure).pc
                   /\ raised' = raise_exception(target_failure).raised
                   /\ UNCHANGED normal_operating_point
              ELSE /\ pc' = "resolve"
                   /\ raised' = raised
                   /\ normal_operating_point' = r.value
    /\ sensitivities' = << >>
    /\ UNCHANGED << inputs, parameter_values, index, k, parameter, normal_value,
                    differentiation_interval, rel_width, results,
                    function_inputs, absolute_sensitivity,
                    relative_sensitivity, second_derivative, printed, returned >>

\* the loop header, the choice of the interval, results = []
ResolveInterval ==
    /\ pc = "resolve"
    /\ LET p == parameter_values[index].name
           v == parameter_values[index].value
           e == explicit_interval(differentiation_interval_values, p)
           w == resolve_width(interval_width, p)
       IN  /\ parameter' = p
           /\ normal_value' = v
           /\ IF e # << >>
              THEN /\ differentiation_interval' = e
                   /\ pc' = "evaluate"
                   /\ UNCHANGED << rel_width, raised >>
              ELSE IF w.ok
              THEN /\ rel_width' = w.width
                   /\ differentiation_interval' = derived_interval(v, w.width)
                   /\ pc' = "evaluate"
                   /\ raised' = raised
              ELSE /\ raised' = raise_exception(missing_interval_error(p)).raised
                   /\ pc' = raise_exception(missing_interval_error(p)).pc
                   /\ differentiation_interval' = e
                   /\ UNCHANGED rel_width
    /\ results' = << >>
    /\ k' = 1
    /\ UNCHANGED << inputs, parameter_values, index, normal_operating_point,
                    function_inputs, absolute_sensitivity, relative_sensitivity,
                    second_derivative, sensitivities, printed, calls, returned >>

\* one pass of: for value in differentiation_interval
EvaluatePerturbed ==
    /\ pc = "evaluate"
    /\ LET value == differentiation_interval[k]
           fi    == perturbed_inputs(parameter_values, index, value)
           r     == Apply(function, values(fi))
       IN  /\ function_inputs' = fi
           /\ parameter_values' = caller_dict_after_write(parameter_values, fi)
           /\ calls' = Append(calls, [kind |-> "perturbed", args |-> values(fi),
                                      parameter |-> parameter, value |-> value])
           /\ IF r.raised
              THEN /\ raised' = raise_exception(evaluation_failure(parameter, value)).raised
                   /\ pc' = raise_exception(evaluation_failure(parameter, value)).pc
                   /\ UNCHANGED << results, k >>
              ELSE /\ results' = Append(results, r.value)
                   /\ k' = k + 1
                   /\ pc' = IF k = Len(differentiation_interval)
                            THEN "derive" ELSE "evaluate"
                   /\ raised' = raised
    /\ UNCHANGED << inputs, index, normal_operating_point, parameter,
                    normal_value, differentiation_interval, rel_width,
                    absolute_sensitivity, relative_sensitivity,
                    second_derivative, sensitivities, printed, returned >>

\* the two sensitivities, the linearity check, the entry of the parameter
ComputeSensitivity ==
    /\ pc = "derive"
    /\ IF Len(results) < 2
       THEN \* results[1]
            /\ raised' = raise_exception(index_error).raised
            /\ pc' = raise_exception(index_error).pc
            /\ UNCHANGED << absolute_sensitivity, relative_sensitivity,
                            second_derivative, printed, sensitivities, index >>
       ELSE IF differentiation_interval[2] = differentiation_interval[1]
       THEN \* res_diff / 0
            /\ raised' = raise_exception(zero_division).raised
            /\ pc' = raise_exception(zero_division).pc
            /\ UNCHANGED << absolute_sensitivity, relative_sensitivity,
                            second_derivative, printed, sensitivities, index >>
       ELSE LET a == RDiv(RSub(results[2], results[1]),
                          RSub(differentiation_interval[2],
                               differentiation_interval[1]))
            IN  /\ absolute_sensitivity' = a
                /\ IF normal_operating_point = Zero
                   THEN \* absolute_sensitivity * normal_value / 0
                        /\ raised' = raise_exception(zero_division).raised
                        /\ pc' = raise_exception(zero_division).pc
                        /\ UNCHANGED << relative_sensitivity, second_derivative,
                                        printed, sensitivities, index >>
                   ELSE LET rel   == RDiv(RMul(a, normal_value),
                                          normal_operating_point)
                            ratio == linearity_ratio(normal_operating_point, results)
                        IN  /\ relative_sensitivity' = rel
                            /\ second_derivative' = ratio
                            /\ printed' =
                                 IF is_linear(ratio) THEN printed
                                 ELSE Append(printed, [parameter |-> parameter,
                                                       ratio |-> ratio])
                            /\ sensitivities' =
                                 dict_set(sensitivities, parameter,
                                   [name |-> parameter,
                                    absolute_sensitivity |->
                                      np_round(a, AbsoluteDecimals),
                                    relative_sensitivity |->
                                      np_round(rel, RelativeDecimals)])
                            /\ index' = index + 1
                            /\ pc' = IF index = Len(parameter_values)
                                     THEN "return" ELSE "resolve"
                            /\ raised' = raised
    /\ UNCHANGED << inputs, parameter_values, k, normal_operating_point,
                    parameter, normal_value, differentiation_interval,
                    rel_width, results, function_inputs, calls, returned >>

\* return sensitivities
ReturnSensitivities ==
    /\ pc = "return"
    /\ returned' = [isnone |-> FALSE, map |-> sensitivities]
    /\ pc' = "done"
    /\ UNCHANGED << inputs, parameter_values, index, k, locals, sensitivities,
                    printed, calls, raised >>

\* ------------------------------------------------ get_sensitivities, steps
\* sympy numbers: rationals, zoo (complex infinity) and nan
Zoo == << 1, 0 >>
Nan == << 0, 0 >>

sy_mul(a, b) ==
    IF a = Nan \/ b = Nan THEN Nan
    ELSE IF a = Zoo \/ b = Zoo
         THEN IF a = Zero \/ b = Zero THEN Nan ELSE Zoo
    ELSE RMul(a, b)

sy_div(a, b) ==
    IF a = Nan \/ b = Nan THEN Nan
    ELSE IF b = Zoo THEN IF a = Zoo THEN Nan ELSE Zero
    ELSE IF a = Zoo THEN Zoo
    ELSE IF b = Zero THEN IF a = Zero THEN Nan ELSE Zoo
    ELSE RDiv(a, b)

\* function(*all_parameters).subs(parameter_values)
sy_value(fn, vals) ==
    LET r == Apply(fn, vals)
    IN  IF ~ r.raised THEN r.value
        ELSE IF Cardinality({ i \in 1 .. Len(vals) : vals[i] = Zero }) = 1
             THEN Zoo    \* zoo + finite
             ELSE Nan    \* zoo + zoo

RECURSIVE ProductExcept(_, _, _)
ProductExcept(vals, i, skip) ==
    IF i = 0 THEN One
    ELSE IF i = skip THEN ProductExcept(vals, i - 1, skip)
    ELSE RMul(ProductExcept(vals, i - 1, skip), vals[i])

\* sy.diff(function(*all_parameters), single_parameter).subs(parameter_values)
partially_derivate(fn, vals, i) ==
    CASE fn = "weighted"   -> Rat(i, 1)
      [] fn = "product"    -> ProductExcept(vals, Len(vals), i)
      [] fn = "squares"    -> RMul(Rat(2 * i, 1), vals[i])
      [] fn = "constant"   -> Zero
      [] OTHER             -> IF vals[i] = Zero THEN Zoo
                              ELSE RDiv(Rat(-1, 1), RMul(vals[i], vals[i]))

get_sensitivity_for_parameter(fn, pv, i) ==
    LET nop == sy_value(fn, values(pv))
        a   == partially_derivate(fn, values(pv), i)
    IN  [name |-> pv[i].name,
         absolute_sensitivity |-> a,
         relative_sensitivity |-> sy_div(sy_mul(a, pv[i].value), nop)]

\* one pass of: for parameter in parameters
SymbolicSensitivity ==
    /\ engine = "symbolic"
    /\ pc \in {"start", "symbolic"}
    /\ sensitivities' =
         dict_set(IF pc = "start" THEN << >> ELSE sensitivities,
                  parameter_values[index].name,
                  get_sensitivity_for_parameter(function, parameter_values, index))
    /\ index' = index + 1
    /\ pc' = IF index = Len(parameter_values) THEN "return" ELSE "symbolic"
    /\ UNCHANGED << inputs, parameter_values, k, locals, printed, calls,
                    raised, returned >>

Next ==
    \/ EvaluateOperatingPoint
    \/ ResolveInterval
    \/ EvaluatePerturbed
    \/ ComputeSensitivity
    \/ SymbolicSensitivity
    \/ ReturnSensitivities

Spec == Init /\ [][Next]_vars

\* ------------------------------------------------------------- properties
Given == given_parameter_values
NumParams == Len(Given)
Pos(p) == CHOOSE i \in 1 .. NumParams : Given[i].name = p

\* the explicit interval the caller gave for p, << >> when there is none
GivenInterval(p) ==
    IF differentiation_interval_values.isnone THEN << >>
    ELSE IF p \in DOMAIN differentiation_interval_values.map
         THEN differentiation_interval_values.map[p]
    ELSE << >>

HasExplicit(p) == GivenInterval(p) # << >>

\* the width policy is a mapping without an entry for p and without "default"
NoUsableWidth(p) ==
    /\ interval_width.isdict
    /\ p \notin DOMAIN interval_width.map
    /\ "default" \notin DOMAIN interval_width.map

PerturbedCallsOf(p) ==
    SelectSeq(calls, LAMBDA c : c.kind = "perturbed" /\ c.parameter = p)

\* the entry of the current parameter has just been stored
EntryStored ==
    /\ engine = "numerical"
    /\ sensitivities # << >>
    /\ sensitivities[Len(sensitivities)].name = parameter

\* the last call to the target function raised
LastCallRaised ==
    /\ calls # << >>
    /\ Apply(function, calls[Len(calls)].args).raised

\* C1: when the target function raises during a perturbed evaluation of
\* parameter p at value x, the call ends with a ValueError of the evaluation
\* kind that identifies p and x.
C1_EvaluationErrorWrapped ==
    (LastCallRaised /\ calls[Len(calls)].kind = "perturbed") =>
        /\ pc = "raised"
        /\ raised.type = "ValueError"
        /\ raised.kind = "evaluation"
        /\ raised.parameter = calls[Len(calls)].parameter
        /\ raised.value = calls[Len(calls)].value

\* C2: for a parameter with a non-empty explicit interval, the perturbed
\* evaluations use exactly the values of that interval, in order, the
\* derivative is divided by (high - low) of that interval, and no
\* configuration error is raised for it, whatever the width policy says.
C2_ExplicitIntervalWins ==
    /\ \A i \in 1 .. NumParams :
         LET p  == Given[i].name
             cs == PerturbedCallsOf(p)
         IN  HasExplicit(p) =>
               /\ Len(cs) <= Len(GivenInterval(p))
               /\ \A m \in 1 .. Len(cs) :
                    /\ cs[m].value = GivenInterval(p)[m]
                    /\ cs[m].args[i] = GivenInterval(p)[m]
               /\ ~ (raised.kind = "configuration" /\ raised.parameter = p)
    /\ (EntryStored /\ HasExplicit(parameter)) =>
         /\ Len(PerturbedCallsOf(parameter)) = Len(GivenInterval(parameter))
         /\ RMul(absolute_sensitivity,
                 RSub(GivenInterval(parameter)[2], GivenInterval(parameter)[1]))
              = RSub(results[2], results[1])

C2_Witness ==
    /\ EntryStored
    /\ HasExplicit(parameter)
    /\ NoUsableWidth(parameter)
    /\ GivenInterval(parameter) # derived_interval(normal_value, DefaultIntervalWidth)

\* C3: when the call reaches a parameter p that has no non-empty explicit
\* interval under a mapping policy with neither an entry p nor "default", it
\* fails there with a configuration ValueError naming p, without calling the
\* target function for p; a call with such a parameter never returns a result.
C3_MissingWidthFails ==
    /\ [][ (pc = "resolve"
            /\ ~ HasExplicit(parameter_values[index].name)
            /\ NoUsableWidth(parameter_values[index].name))
           => /\ pc' = "raised"
              /\ raised'.type = "ValueError"
              /\ raised'.kind = "configuration"
              /\ raised'.parameter = parameter_values[index].name
              /\ calls' = calls
              /\ returned'.isnone ]_vars
    /\ []( (engine = "numerical"
            /\ \E i \in 1 .. NumParams :
                 ~ HasExplicit(Given[i].name) /\ NoUsableWidth(Given[i].name))
           => returned.isnone )

C3_Witness ==
    /\ NumParams = 2
    /\ pc = "raised"
    /\ raised.kind = "configuration"
    /\ raised.parameter = Given[2].name
    /\ HasExplicit(Given[1].name)
    /\ ~ differentiation_interval_values.isnone

\* the width the policy assigns to p, as the specification words it
PolicyWidth(p) ==
    IF ~ interval_width.isdict THEN interval_width.scalar
    ELSE IF p \in DOMAIN interval_width.map THEN interval_width.map[p]
    ELSE interval_width.map["default"]

\* C4: for a parameter with operating value v and no non-empty explicit
\* interval, the interval used is [v*(1-w), v*(1+w)] with w the scalar
\* policy, else the entry named p, else the "default" entry; the two
\* perturbed evaluations are made at these two values.
C4_DerivedInterval ==
    (pc \in {"evaluate", "derive"} /\ ~ HasExplicit(parameter)) =>
        LET v  == Given[Pos(parameter)].value
            w  == PolicyWidth(parameter)
            lo == RSub(v, RMul(v, w))
            hi == RAdd(v, RMul(v, w))
            cs == PerturbedCallsOf(parameter)
        IN  /\ differentiation_interval = << lo, hi >>
            /\ Len(cs) >= 1 => cs[1].value = lo
            /\ Len(cs) >= 2 => cs[2].value = hi

C4_Witness ==
    /\ pc = "derive"
    /\ ~ HasExplicit(parameter)
    /\ interval_width.isdict
    /\ {parameter, "default"} \subseteq DOMAIN interval_width.map
    /\ interval_width.map[parameter] # interval_width.map["default"]
    /\ normal_value # Zero

\* C5: parameters are processed one at a time in input order, and the call
\* stops at the first failure: after an error no further step is taken (no
\* call to the target function, no return), the error reaches the caller and
\* no result mapping does; a configuration error for p comes before any
\* evaluation for p.
C5_StopsAtFirstFailure ==
    /\ [][ raised = NoError /\ pc # "raised" ]_vars
    /\ []( raised # NoError => (pc = "raised" /\ returned.isnone) )
    /\ []( pc = "raised" => raised # NoError )
    /\ []( raised.kind = "configuration" =>
             PerturbedCallsOf(raised.parameter) = << >> )
    /\ []( \A i, j \in 1 .. Len(calls) :
             (i < j /\ calls[i].kind = "perturbed") =>
                 /\ calls[j].kind = "perturbed"
                 /\ Pos(calls[i].parameter) <= Pos(calls[j].parameter) )
    /\ []( engine = "numerical" =>
             /\ Len(sensitivities) <= NumParams
             /\ \A i \in 1 .. Len(sensitivities) :
                  sensitivities[i].name = Given[i].name
             /\ \A i \in 1 .. Len(calls) :
                  calls[i].kind = "perturbed" =>
                    Pos(calls[i].parameter) <= Len(sensitivities) + 1 )

C5_Witness ==
    /\ pc = "raised"
    /\ NumParams = 2
    /\ Len(sensitivities) = 1
    /\ calls[Len(calls)].kind = "perturbed"
    /\ LastCallRaised

\* f(low), f(operating point), f(high) of the parameter whose entry was stored
FLow  == results[1]
FHigh == results[2]
FNop  == Apply(function, values(Given)).value

\* C6: for a target function that is linear in the parameter, whatever the
\* operating point and the interval (derived or explicit), the linearity
\* ratio (f(op) - f(low)) / (f(high) - f(op)) is 1 and no diagnostic is
\* emitted for the parameter.
C6_LinearMeansNoDiagnostic ==
    (EntryStored /\ function \in LinearFunctions) =>
        /\ second_derivative = One
        /\ \A i \in 1 .. Len(printed) : printed[i].parameter # parameter

\* C7 as stated: whenever f(high) = f(operating point) when the sensitivities
\* of a parameter are computed, that step raises no exception, emits no
\* diagnostic and stores the entry of the parameter.
C7_ZeroDenominatorNeverRaises ==
    [][ (pc = "derive" /\ Len(results) >= 2 /\ FHigh = normal_operating_point)
        => /\ raised' = NoError
           /\ pc' # "raised"
           /\ printed' = printed
           /\ \E i \in 1 .. Len(sensitivities') :
                sensitivities'[i].name = parameter ]_vars

\* C7 amended: whenever f(high) = f(operating point) and the two divisions
\* before the linearity check succeed (interval of non-zero width, non-zero
\* f(operating point)), the ratio is exactly 1, the step raises no
\* exception, emits no diagnostic and stores the entry of the parameter.
C7_ZeroDenominatorIsLinear ==
    [][ (pc = "derive" /\ Len(results) >= 2 /\ FHigh = normal_operating_point
         /\ differentiation_interval[2] # differentiation_interval[1]
         /\ normal_operating_point # Zero)
        => /\ second_derivative' = One
           /\ raised' = NoError
           /\ pc' # "raised"
           /\ printed' = printed
           /\ Len(sensitivities') = Len(sensitivities) + 1
           /\ sensitivities'[Len(sensitivities')].name = parameter ]_vars

C7_Witness ==
    /\ EntryStored
    /\ FHigh = normal_operating_point
    /\ FLow # normal_operating_point
    /\ second_derivative = One

\* C8: a successful call of either engine returns a mapping with exactly one
\* entry per input parameter, keyed by its name, in input order, whether or
\* not a diagnostic was emitted.
C8_ResultKeysInInputOrder ==
    pc = "done" =>
        /\ ~ returned.isnone
        /\ Len(returned.map) = NumParams
        /\ \A i \in 1 .. NumParams : returned.map[i].name = Given[i].name

C8_Witness ==
    /\ pc = "done"
    /\ NumParams = 2
    /\ Len(printed) = 1
    /\ printed[1].parameter = Given[1].name

\* every interval the call can use has exactly two values
TwoValueIntervals ==
    \A i \in 1 .. NumParams :
        GivenInterval(Given[i].name) = << >> \/ Len(GivenInterval(Given[i].name)) = 2

\* C9: the operating point is evaluated once, as the first call; its value
\* divides every relative sensitivity and is the reference of every linearity
\* check; a successful call with two-value intervals makes 1 + 2n calls.
C9_OperatingPointOnce ==
    engine = "numerical" =>
        /\ \A i \in 1 .. Len(calls) :
             (calls[i].kind = "operating_point") <=> (i = 1)
        /\ calls # << >> => calls[1].args = values(Given)
        /\ pc \notin {"start", "raised"} => normal_operating_point = FNop
        /\ EntryStored =>
             /\ RMul(relative_sensitivity, FNop)
                  = RMul(absolute_sensitivity, Given[Pos(parameter)].value)
             /\ second_derivative =
                  IF FHigh = FNop THEN One
                  ELSE RDiv(RSub(FNop, FLow), RSub(FHigh, FNop))
        /\ (pc = "done" /\ TwoValueIntervals) => Len(calls) = 1 + 2 * NumParams

C9_Witness ==
    /\ pc = "done"
    /\ NumParams = 2
    /\ TwoValueIntervals
    /\ Len(calls) = 5
    /\ calls[2].args # calls[1].args
    /\ calls[5].args # calls[1].args

\* C10: each parameter is evaluated at low, then at high; in every perturbed
\* evaluation the arguments are in input order, the perturbed one has the
\* interval value and all others their operating-point values; the caller's
\* parameter_values is never changed.
C10_OnlyOneArgumentPerturbed ==
    /\ parameter_values = Given
    /\ \A c \in 1 .. Len(calls) :
         calls[c].kind = "perturbed" =>
           /\ Len(calls[c].args) = NumParams
           /\ \A j \in 1 .. NumParams :
                calls[c].args[j] =
                  IF j = Pos(calls[c].parameter) THEN calls[c].value
                  ELSE Given[j].value
    /\ LET cs == PerturbedCallsOf(parameter)
       IN  /\ Len(cs) <= Len(differentiation_interval)
           /\ \A m \in 1 .. Len(cs) : cs[m].value = differentiation_interval[m]

C10_Witness ==
    /\ pc = "done"
    /\ NumParams = 2
    /\ \A c \in 2 .. Len(calls) : calls[c].value # Given[Pos(calls[c].parameter)].value
    /\ Given[1].value # Given[2].value
====
